---- MODULE Spec2Model ----
(***************************************************************************)
(* Route-stub generator of the micro-frontend template                     *)
(* (scripts/generate-route-stubs.ts).                                      *)
(*                                                                         *)
(* A generation run scans every package of the repository, builds the      *)
(* registry of exposed route groups, resolves every package's mountRoutes  *)
(* into a flat list of mounts, and writes one re-export stub per route     *)
(* file per mount under <host>/app/(feature-routes).                       *)
(*                                                                         *)
(* Strings are sequences of tokens: a token is a path separator "/", a dot *)
(* "." or a name without either.  "sub/page.tsx" is                        *)
(* <<"sub", "/", "page", ".", "tsx">>.                                     *)
(***************************************************************************)
EXTENDS Integers, Sequences, FiniteSets, TLC

\* ------------------------------------------------------------------------
\* Strings and node:path
\* ------------------------------------------------------------------------

EmptyStr == << >>

DotStr == << "." >>

\* segs joined with "/" (Array.prototype.join('/'))
RECURSIVE JoinSegs(_)
JoinSegs(segs) ==
  IF Len(segs) = 0 THEN EmptyStr
  ELSE IF Len(segs) = 1 THEN segs[1]
  ELSE segs[1] \o << "/" >> \o JoinSegs(Tail(segs))

\* s.split('/')
RECURSIVE SplitSlash(_)
SplitSlash(s) ==
  IF \A i \in 1..Len(s) : s[i] # "/" THEN << s >>
  ELSE LET i == CHOOSE k \in 1..Len(s) : s[k] = "/" /\ \A j \in 1..(k - 1) : s[j] # "/"
       IN  << SubSeq(s, 1, i - 1) >> \o SplitSlash(SubSeq(s, i + 1, Len(s)))

\* normalizeString of node:path (posix, relative paths): "" and "." segments
\* are dropped, ".." removes the segment before it or is kept when there is none
RECURSIVE NormalizeSegs(_, _)
NormalizeSegs(segs, acc) ==
  IF Len(segs) = 0 THEN acc
  ELSE LET s == Head(segs) IN
       IF s = EmptyStr \/ s = DotStr THEN NormalizeSegs(Tail(segs), acc)
       ELSE IF s = << ".", "." >>
            THEN IF Len(acc) > 0 /\ acc[Len(acc)] # << ".", "." >>
                 THEN NormalizeSegs(Tail(segs), SubSeq(acc, 1, Len(acc) - 1))
                 ELSE NormalizeSegs(Tail(segs), Append(acc, s))
            ELSE NormalizeSegs(Tail(segs), Append(acc, s))

\* path.posix.normalize for relative paths
PosixNormalize(p) ==
  IF Len(p) = 0 THEN DotStr
  ELSE LET trailing == p[Len(p)] = "/"
           body     == JoinSegs(NormalizeSegs(SplitSlash(p), << >>))
       IN  IF Len(body) = 0
           THEN (IF trailing THEN << ".", "/" >> ELSE DotStr)
           ELSE (IF trailing THEN body \o << "/" >> ELSE body)

\* a join that puts "/" between its arguments and does not normalize
PosixJoinRaw(a, b) ==
  IF Len(a) = 0 THEN b ELSE IF Len(b) = 0 THEN a ELSE a \o << "/" >> \o b

\* path.posix.join(a, b): the non-empty arguments joined with "/", normalized
PosixJoin(a, b) ==
  IF Len(a) = 0 /\ Len(b) = 0 THEN DotStr
  ELSE IF Len(a) = 0 THEN PosixNormalize(b)
  ELSE IF Len(b) = 0 THEN PosixNormalize(a)
  ELSE PosixNormalize(a \o << "/" >> \o b)

\* s.replace(/\\/g, '/')
ReplaceBackslashes(s) == [i \in 1..Len(s) |-> IF s[i] = "\\" THEN "/" ELSE s[i]]

\* an extension strip whose pattern lacks the dot: /[^.]+$/ leaves "page."
StripAfterDot(s) ==
  LET dots == {i \in 1..Len(s) : s[i] = "."}
  IN  IF dots = {} THEN EmptyStr
      ELSE SubSeq(s, 1, CHOOSE i \in dots : \A j \in dots : j <= i)

\* s.replace(/\.[^.]+$/, ''): the last dot and what follows it are removed when
\* at least one character follows
StripExtension(s) ==
  LET dots == {i \in 1..Len(s) : s[i] = "."}
  IN  IF dots = {} THEN s
      ELSE LET last == CHOOSE i \in dots : \A j \in dots : j <= i
           IN  IF last = Len(s) THEN s ELSE SubSeq(s, 1, last - 1)

\* whether hay contains needle as a contiguous run (String.prototype.includes)
Includes(hay, needle) ==
  \E i \in 0..(Len(hay) - Len(needle)) :
     \A j \in 1..Len(needle) : hay[i + j] = needle[j]

\* whether s starts with pre
StartsWith(s, pre) ==
  Len(pre) <= Len(s) /\ SubSeq(s, 1, Len(pre)) = pre

\* ------------------------------------------------------------------------
\* The repository: packages, their manifests and their app/ trees
\* ------------------------------------------------------------------------

\* the package.json files the scan can find
Packages == {"web", "fa", "fb", "zh"}

\* directory of each package, relative to the repository root
PkgDir(p) ==
  CASE p = "web" -> << "apps", "/", "web" >>
    [] p = "fa"  -> << "features", "/", "a" >>
    [] p = "fb"  -> << "features", "/", "b" >>
    [] p = "zh"  -> << "zhost" >>

\* "name" of each package.json
PkgName(p) ==
  CASE p = "web" -> "web"
    [] p = "fa"  -> "a"
    [] p = "fb"  -> "b"
    [] p = "zh"  -> "zhost"

PkgNames == {PkgName(p) : p \in Packages}

\* collation rank of the names that occur in package directories
NameRank(t) ==
  CASE t = "/"        -> 0
    [] t = "a"        -> 1
    [] t = "apps"     -> 2
    [] t = "b"        -> 3
    [] t = "features" -> 4
    [] t = "web"      -> 5
    [] t = "zhost"    -> 6

\* a.localeCompare(b) < 0 on package paths
RECURSIVE LocaleLess(_, _)
LocaleLess(a, b) ==
  IF Len(b) = 0 THEN FALSE
  ELSE IF Len(a) = 0 THEN TRUE
  ELSE IF Head(a) = Head(b) THEN LocaleLess(Tail(a), Tail(b))
  ELSE NameRank(Head(a)) < NameRank(Head(b))

\* constructors of manifest values
File(dirs, base, ext) == [dirs |-> dirs, base |-> base, ext |-> ext]

Expose(name, internalPath) == [name |-> name, internalPath |-> internalPath]

Feat(key, slug) == [key |-> key, slug |-> slug]

Group(baseRoute, features) == [baseRoute |-> baseRoute, features |-> features]

\* cfg: "none" (no routes.config), "ok" (loads), "bad" (the import throws)
Pkg(present, cfg, exposeRoutes, mountRoutes, hasApp, files) ==
  [present |-> present, cfg |-> cfg, exposeRoutes |-> exposeRoutes,
   mountRoutes |-> mountRoutes, hasApp |-> hasApp, files |-> files]

NoPkg == Pkg(FALSE, "none", << >>, << >>, FALSE, {})

\* app/ trees of the packages (route files and one file that is no route file)
TreeWeb == {File(<< >>, "layout", "tsx"), File(<< >>, "page", "tsx")}

TreeA == {File(<< >>, "page", "tsx"), File(<< "sub" >>, "layout", "ts"),
          File(<< >>, "util", "ts")}

TreeB == {File(<< >>, "page", "jsx"), File(<< "[id]" >>, "route", "js")}

TreeZ == {File(<< >>, "page", "js")}

\* keys of the expose entries
KeyA == "fa-root"

KeyASub == "fa-sub"

KeyB == "fb-root"

KeyZ == "zh-root"

Seg(name) == << name >>

ProviderA == Pkg(TRUE, "ok", << Expose(KeyA, DotStr), Expose(KeyASub, Seg("sub")) >>,
                 << >>, TRUE, TreeA)

ProviderB == Pkg(TRUE, "ok", << Expose(KeyB, DotStr) >>, << >>, TRUE, TreeB)

ProviderZ == Pkg(TRUE, "ok", << Expose(KeyZ, DotStr) >>, << >>, TRUE, TreeZ)

WebHost(mountRoutes) == Pkg(TRUE, "ok", << >>, mountRoutes, TRUE, TreeWeb)

WithMounts(pkg, mountRoutes) == [pkg EXCEPT !.mountRoutes = mountRoutes]

Workspace(web, fa, fb, zh) ==
  [p \in Packages |-> CASE p = "web" -> web [] p = "fa" -> fa
                        [] p = "fb" -> fb [] p = "zh" -> zh]

\* the host mounts a provider under base1/a
WsBasic ==
  Workspace(WebHost(<< Group(Seg("base1"), << Feat(KeyA, Seg("a")) >>) >>),
            ProviderA, ProviderB, NoPkg)

\* the mount moved to base2, and a second key is mounted next to it
WsMoved ==
  Workspace(WebHost(<< Group(Seg("base2"),
                             << Feat(KeyA, Seg("a")), Feat(KeyASub, Seg("s")) >>) >>),
            ProviderA, ProviderB, NoPkg)

\* WsBasic with a feature entry whose key nobody exposes
WsUnknown ==
  Workspace(WebHost(<< Group(Seg("base1"),
                             << Feat("ghost", Seg("g")), Feat(KeyA, Seg("a")) >>) >>),
            ProviderA, ProviderB, NoPkg)

\* WsBasic after package a was removed from the repository
WsGone ==
  Workspace(WebHost(<< Group(Seg("base1"), << Feat(KeyA, Seg("a")) >>) >>),
            NoPkg, ProviderB, NoPkg)

\* WsBasic with a routes.config in package b that fails to load
WsBad ==
  Workspace(WebHost(<< Group(Seg("base1"), << Feat(KeyA, Seg("a")) >>) >>),
            ProviderA, [ProviderB EXCEPT !.cfg = "bad"], NoPkg)

\* nesting: apps/web and zhost both mount a, a mounts b under custom/b
WsNest ==
  Workspace(WebHost(<< Group(DotStr, << Feat(KeyA, Seg("a")) >>) >>),
            WithMounts(ProviderA, << Group(Seg("custom"), << Feat(KeyB, Seg("b")) >>) >>),
            ProviderB,
            WithMounts(ProviderZ, << Group(Seg("z"), << Feat(KeyA, Seg("a")) >>) >>))

\* chain web -> a -> b -> zhost, in the order of the package paths
WsChainUp ==
  Workspace(WebHost(<< Group(DotStr, << Feat(KeyA, Seg("a")) >>) >>),
            WithMounts(ProviderA, << Group(Seg("c"), << Feat(KeyB, Seg("b")) >>) >>),
            WithMounts(ProviderB, << Group(EmptyStr, << Feat(KeyZ, Seg("z")) >>) >>),
            ProviderZ)

\* chain web -> b -> a -> zhost, against the order of the package paths
WsChainDown ==
  Workspace(WebHost(<< Group(DotStr, << Feat(KeyB, Seg("b")) >>) >>),
            WithMounts(ProviderA, << Group(EmptyStr, << Feat(KeyZ, Seg("z")) >>) >>),
            WithMounts(ProviderB, << Group(Seg("c"), << Feat(KeyA, Seg("a")) >>) >>),
            ProviderZ)

\* self-mounts: a mounts its own key and nobody mounts a before its turn;
\* b mounts its own key and the host mounts b
WsSelf ==
  Workspace(WebHost(<< Group(DotStr, << Feat(KeyB, Seg("b")) >>) >>),
            WithMounts(ProviderA, << Group(Seg("me"), << Feat(KeyA, DotStr) >>) >>),
            WithMounts(ProviderB, << Group(DotStr, << Feat(KeyB, Seg("x")) >>) >>),
            NoPkg)

\* a self-mount of a package that nobody else mounts
WsSelfRoot ==
  Workspace(WebHost(<< Group(DotStr, << Feat(KeyB, Seg("b")) >>) >>),
            WithMounts(ProviderA, << Group(Seg("me"), << Feat(KeyA, DotStr) >>) >>),
            ProviderB, NoPkg)

\* a and b mount each other
WsCycle ==
  Workspace(WebHost(<< Group(DotStr, << Feat(KeyA, Seg("a")) >>) >>),
            WithMounts(ProviderA, << Group(DotStr, << Feat(KeyB, Seg("b")) >>) >>),
            WithMounts(ProviderB, << Group(DotStr, << Feat(KeyA, Seg("a2")) >>) >>),
            NoPkg)

\* fan-out: two groups of the host mount a, and a mounts b
WsFanout ==
  Workspace(WebHost(<< Group(Seg("x"), << Feat(KeyA, Seg("a")) >>),
                       Group(Seg("y"), << Feat(KeyA, Seg("a")) >>) >>),
            WithMounts(ProviderA, << Group(DotStr, << Feat(KeyB, Seg("b")) >>) >>),
            ProviderB, NoPkg)

\* a and b expose the same key, and the host mounts it
WsDup ==
  Workspace(WebHost(<< Group(DotStr, << Feat("shared", Seg("d")) >>) >>),
            Pkg(TRUE, "ok", << Expose("shared", DotStr) >>, << >>, TRUE, TreeA),
            Pkg(TRUE, "ok", << Expose("shared", DotStr) >>, << >>, TRUE, TreeB),
            NoPkg)

\* WsBasic with a routes.config in the host package that fails to load
WsBadHost ==
  Workspace([WebHost(<< Group(Seg("base1"), << Feat(KeyA, Seg("a")) >>) >>)
               EXCEPT !.cfg = "bad"],
            ProviderA, ProviderB, NoPkg)

\* "." and "" as baseRoute and as slug: the host mounts a at "." / "." and b at
\* c / ""; a mounts zhost's key at "" / z
WsDots ==
  Workspace(WebHost(<< Group(DotStr, << Feat(KeyA, DotStr) >>),
                       Group(Seg("c"), << Feat(KeyB, EmptyStr) >>) >>),
            WithMounts(ProviderA, << Group(EmptyStr, << Feat(KeyZ, Seg("z")) >>) >>),
            ProviderB, ProviderZ)

\* a package that nobody mounts, and that is not apps/web, mounts b at t1/b
WsTemp ==
  Workspace(WebHost(<< >>), ProviderA, ProviderB,
            WithMounts(ProviderZ, << Group(Seg("t1"), << Feat(KeyB, Seg("b")) >>) >>))

\* WsTemp after the mount moved to t2/b
WsTempMoved ==
  Workspace(WebHost(<< >>), ProviderA, ProviderB,
            WithMounts(ProviderZ, << Group(Seg("t2"), << Feat(KeyB, Seg("b")) >>) >>))

\* a exposes the key "shared" twice, b exposes it as well; each also exposes a
\* key of its own; the host mounts "shared"
WsDupKeys ==
  Workspace(WebHost(<< Group(DotStr, << Feat("shared", Seg("d")) >>) >>),
            Pkg(TRUE, "ok", << Expose(KeyA, DotStr), Expose("shared", DotStr),
                               Expose("shared", Seg("sub")) >>, << >>, TRUE, TreeA),
            Pkg(TRUE, "ok", << Expose(KeyB, DotStr), Expose("shared", DotStr) >>,
                << >>, TRUE, TreeB),
            NoPkg)

\* what the registry build and the mount loop pass over: an internalPath that
\* does not exist, a package without app/, a package without routes.config,
\* and a mount group without features
WsSkips ==
  Workspace(WebHost(<< Group(Seg("e"), << >>),
                       Group(Seg("base1"), << Feat(KeyA, Seg("a")) >>) >>),
            Pkg(TRUE, "ok", << Expose("fa-missing", Seg("nope")), Expose(KeyA, DotStr) >>,
                << >>, TRUE, TreeA),
            Pkg(TRUE, "ok", << Expose(KeyB, DotStr) >>, << >>, FALSE, {}),
            Pkg(TRUE, "none", << >>, << >>, TRUE, TreeZ))

\* two features of one group put a page.tsx of two providers at k/p
WsCollide ==
  Workspace(WebHost(<< Group(Seg("k"), << Feat(KeyA, Seg("p")), Feat(KeyZ, Seg("p")) >>) >>),
            ProviderA, NoPkg,
            Pkg(TRUE, "ok", << Expose(KeyZ, DotStr) >>, << >>, TRUE,
                {File(<< >>, "page", "tsx")}))

\* the contents the repository takes between runs
\* the host mounts a's root at k/p and zhost mounts b's root at k/p; both
\* providers have a page.tsx
WsCollideHost ==
  Workspace(WebHost(<< Group(Seg("k"), << Feat(KeyA, Seg("p")) >>) >>),
            ProviderA,
            Pkg(TRUE, "ok", << Expose(KeyB, DotStr) >>, << >>, TRUE,
                {File(<< >>, "page", "tsx")}),
            Pkg(TRUE, "ok", << >>, << Group(Seg("k"), << Feat(KeyB, Seg("p")) >>) >>,
                TRUE, TreeZ))

Workspaces ==
  {WsBasic, WsMoved, WsUnknown, WsGone, WsBad, WsNest, WsChainUp, WsChainDown,
   WsSelf, WsSelfRoot, WsCycle, WsFanout, WsDup, WsBadHost, WsDots, WsTemp,
   WsTempMoved, WsDupKeys, WsSkips, WsCollide, WsCollideHost}

\* ------------------------------------------------------------------------
\* Host selection and output locations
\* ------------------------------------------------------------------------

\* hostApp of shared_config/route-config/route-stubs.config.ts
ConfigHostApp == << "apps", "/", "web" >>

DefaultHostApp == << "apps", "/", "web" >>

ZHost == << "zhost" >>

\* the --hostApp argument: absent, "--hostApp=<val>" or "--hostApp <val>"
NoCli == [form |-> "none", val |-> EmptyStr]

CliEq(val) == [form |-> "eq", val |-> val]

CliSep(val) == [form |-> "sep", val |-> val]

\* the command lines and environments a run is started with
Launches ==
  {[cli |-> NoCli, env |-> EmptyStr],
   [cli |-> CliEq(ZHost), env |-> EmptyStr],
   [cli |-> CliSep(DefaultHostApp), env |-> ZHost],
   [cli |-> NoCli, env |-> ZHost]}

\* a selection that looks at the environment before the command line
getHostAppRelEnvFirst(cli, envHostApp) ==
  IF envHostApp # EmptyStr THEN envHostApp
  ELSE IF cli.form \in {"eq", "sep"} /\ cli.val # EmptyStr THEN cli.val
  ELSE IF ConfigHostApp # EmptyStr THEN ConfigHostApp
  ELSE DefaultHostApp

getHostAppRel(cli, envHostApp) ==
  IF cli.form = "eq" THEN cli.val
  ELSE IF cli.form = "sep" /\ cli.val # EmptyStr THEN cli.val
  ELSE IF envHostApp # EmptyStr THEN envHostApp
  ELSE IF ConfigHostApp # EmptyStr THEN ConfigHostApp
  ELSE DefaultHostApp

OUTPUT_GROUP == << "(feature-routes)" >>

GeneratedRoot(hostAppRel) == PosixJoin(PosixJoin(hostAppRel, << "app" >>), OUTPUT_GROUP)

DeclarationPath(hostAppRel) ==
  PosixJoin(PosixJoin(hostAppRel, << "types" >>),
            << "generated-route-modules", ".", "d", ".", "ts" >>)

\* whether file path f lies in directory dir
Under(f, dir) == StartsWith(f, dir \o << "/" >>)

\* ------------------------------------------------------------------------
\* Registry build
\* ------------------------------------------------------------------------

RouteBases == {"page", "layout", "loading", "error", "head", "not-found", "template", "route"}

RouteExts == {"js", "jsx", "ts", "tsx"}

\* a deterministic enumeration of a finite set
RECURSIVE SetToSeq(_)
SetToSeq(S) ==
  IF S = {} THEN << >>
  ELSE LET x == CHOOSE y \in S : TRUE IN << x >> \o SetToSeq(S \ {x})

\* every order in which the elements of S can be listed
RECURSIVE Orders(_)
Orders(S) ==
  IF S = {} THEN {<< >>}
  ELSE UNION {{<< x >> \o o : o \in Orders(S \ {x})} : x \in S}

\* segments of an internalPath below app/
InternalSegs(internalPath) == NormalizeSegs(SplitSlash(internalPath), << >>)

DirSegs(file) == [i \in 1..Len(file.dirs) |-> Seg(file.dirs[i])]

FileName(file) == << file.base, ".", file.ext >>

IsBelow(file, segs) ==
  Len(segs) <= Len(file.dirs) /\ SubSeq(DirSegs(file), 1, Len(segs)) = segs

\* an existence test that every internalPath passes
InternalExistsAlways(pkg, internalPath) == TRUE

\* exists(path.join(appDir, internalPath))
InternalExists(pkg, internalPath) ==
  LET segs == InternalSegs(internalPath)
  IN  segs = << >> \/ \E f \in pkg.files : IsBelow(f, segs)

\* fast-glob of the route-file pattern with cwd = app/<internalPath>: the
\* matching files, relative to cwd
Discover(pkg, internalPath) ==
  LET segs == InternalSegs(internalPath)
      hits == {f \in pkg.files : IsBelow(f, segs) /\ f.base \in RouteBases
                                                  /\ f.ext \in RouteExts}
      rel(f) == JoinSegs(SubSeq(DirSegs(f), Len(segs) + 1, Len(f.dirs))
                         \o << FileName(f) >>)
  IN  SetToSeq({rel(f) : f \in hits})

RegistryItem(key, srcPkg, internalPath, routeFiles) ==
  [key |-> key, srcPkg |-> srcPkg, internalPath |-> internalPath,
   routeFiles |-> routeFiles]

RegistryHas(reg, key) == \E i \in 1..Len(reg) : reg[i].key = key

\* a lookup that returns the item at the head of the registry
RegistryGetHead(reg, key) == reg[1]

RegistryGet(reg, key) == reg[CHOOSE i \in 1..Len(reg) : reg[i].key = key]

\* a registry in which the first item of a key stays
RegistrySetKeepFirst(reg, item) ==
  IF \E i \in 1..Len(reg) : reg[i].key = item.key THEN reg ELSE Append(reg, item)

\* Map.prototype.set: a present key keeps its place and takes the new value
RegistrySet(reg, item) ==
  IF RegistryHas(reg, item.key)
  THEN [i \in 1..Len(reg) |-> IF reg[i].key = item.key THEN item ELSE reg[i]]
  ELSE Append(reg, item)

\* the expose entries of one package, registered in manifest order
RECURSIVE RegisterEntries(_, _, _, _)
RegisterEntries(reg, name, pkg, entries) ==
  IF Len(entries) = 0 THEN reg
  ELSE LET e == Head(entries) IN
       IF InternalExists(pkg, e.internalPath)
       THEN RegisterEntries(
              RegistrySet(reg, RegistryItem(e.name, name, e.internalPath,
                                            Discover(pkg, e.internalPath))),
              name, pkg, Tail(entries))
       ELSE RegisterEntries(reg, name, pkg, Tail(entries))

\* one iteration of the registry loop
ScanPackage(reg, name, pkg) ==
  IF pkg.cfg = "ok" /\ pkg.hasApp /\ Len(pkg.exposeRoutes) > 0
  THEN RegisterEntries(reg, name, pkg, pkg.exposeRoutes)
  ELSE reg

\* the registry loop over the package.json files in the order the scan lists them
RECURSIVE BuildRegistryIn(_, _, _)
BuildRegistryIn(reg, rp, order) ==
  IF Len(order) = 0 THEN reg
  ELSE BuildRegistryIn(ScanPackage(reg, PkgName(Head(order)), rp[Head(order)]),
                       rp, Tail(order))

Present(rp) == {p \in Packages : rp[p].present}

\* ------------------------------------------------------------------------
\* Mount resolution
\* ------------------------------------------------------------------------

\* a.includes(path.join('apps', 'web'))
IsHostPath(dir) == Includes(dir, << "apps", "/", "web" >>)

\* the comparator of sortedPkgJsonPaths: whether a sorts before b
SortsBefore(a, b) ==
  IF IsHostPath(PkgDir(a)) /\ ~IsHostPath(PkgDir(b)) THEN TRUE
  ELSE IF ~IsHostPath(PkgDir(a)) /\ IsHostPath(PkgDir(b)) THEN FALSE
  ELSE LocaleLess(PkgDir(a), PkgDir(b))

RECURSIVE SortPkgs(_)
SortPkgs(S) ==
  IF S = {} THEN << >>
  ELSE LET first == CHOOSE p \in S : \A q \in S \ {p} : SortsBefore(p, q)
       IN  << first >> \o SortPkgs(S \ {first})

sortedPkgJsonPaths(rp) == SortPkgs(Present(rp))

\* routesConfig?.mountRoutes ?? []
MountGroups(pkg) == IF pkg.cfg = "ok" THEN pkg.mountRoutes ELSE << >>

BaseSeg(grp) ==
  IF grp.baseRoute # EmptyStr /\ grp.baseRoute # DotStr THEN grp.baseRoute ELSE EmptyStr

\* a mount prefix that forgets where the consumer itself is mounted
MountPrefixAtRoot(consumerPrefix, baseSeg, slugStr) ==
  IF baseSeg # EmptyStr THEN PosixJoin(baseSeg, slugStr) ELSE slugStr

MountPrefix(consumerPrefix, baseSeg, slugStr) ==
  IF consumerPrefix # EmptyStr
  THEN PosixJoin(consumerPrefix,
                 IF baseSeg # EmptyStr THEN PosixJoin(baseSeg, slugStr) ELSE slugStr)
  ELSE IF baseSeg # EmptyStr THEN PosixJoin(baseSeg, slugStr)
  ELSE slugStr

\* routeFiles re-based under internalPath
RebasedRouteFiles(regItem) ==
  [i \in 1..Len(regItem.routeFiles) |->
     PosixJoin(IF regItem.internalPath = DotStr THEN EmptyStr ELSE regItem.internalPath,
               regItem.routeFiles[i])]

ConsumerMount(regItem, mountPrefix) ==
  [srcPkg |-> regItem.srcPkg, routeFiles |-> RebasedRouteFiles(regItem),
   mountPrefix |-> mountPrefix]

\* an index entry that keeps the latest prefix only
SetKeepLatest(seq, x) == << x >>

\* Set.prototype.add on an insertion-ordered set
SetAdd(seq, x) ==
  IF \E i \in 1..Len(seq) : seq[i] = x THEN seq ELSE Append(seq, x)

\* ------------------------------------------------------------------------
\* Emission
\* ------------------------------------------------------------------------

Line(text, arg) == [text |-> text, arg |-> arg]

FileRec(path, content) == [path |-> path, content |-> content]

ImportSpecifier(srcPkg, routeRel) ==
  Seg(srcPkg) \o << "/", "app", "/" >> \o StripExtension(ReplaceBackslashes(routeRel))

\* a stub that re-exports the default export alone
StubContentDefaultOnly(importSpecifier) ==
  << Line("export { default } from", importSpecifier) >>

StubContent(importSpecifier) ==
  << Line("export { default } from", importSpecifier),
     Line("export * from", importSpecifier) >>

DestPath(root, destPrefix, routeRel) ==
  PosixJoin(root, ReplaceBackslashes(PosixJoin(destPrefix, routeRel)))

\* fs.writeFile: the file is created or replaced
WriteFile(files, path, content) ==
  {f \in files : f.path # path} \cup {FileRec(path, content)}

writeStub(files, root, srcPkg, routeRel, destPrefix) ==
  WriteFile(files, DestPath(root, destPrefix, routeRel),
            StubContent(ImportSpecifier(srcPkg, routeRel)))

RECURSIVE EmitRouteFiles(_, _, _, _)
EmitRouteFiles(files, root, cm, routeFiles) ==
  IF Len(routeFiles) = 0 THEN files
  ELSE EmitRouteFiles(writeStub(files, root, cm.srcPkg, Head(routeFiles), cm.mountPrefix),
                      root, cm, Tail(routeFiles))

RECURSIVE EmitMounts(_, _, _)
EmitMounts(files, root, mounts) ==
  IF Len(mounts) = 0 THEN files
  ELSE EmitMounts(EmitRouteFiles(files, root, Head(mounts), Head(mounts).routeFiles),
                  root, Tail(mounts))

\* providerPkgs: the providers of the registry in first-occurrence order
\* the providers of all registry items, one per item
ProviderPkgsPerItem(reg, acc) == acc \o [i \in 1..Len(reg) |-> reg[i].srcPkg]

RECURSIVE ProviderPkgs(_, _)
ProviderPkgs(reg, acc) ==
  IF Len(reg) = 0 THEN acc
  ELSE ProviderPkgs(Tail(reg), SetAdd(acc, Head(reg).srcPkg))

DeclarationContent(reg) ==
  LET pkgs == ProviderPkgs(reg, << >>)
  IN  << Line("// AUTO-GENERATED", EmptyStr), Line("export interface Registry {", EmptyStr) >>
      \o [i \in 1..Len(reg) |-> Line("RegistryEntry", Seg(reg[i].key))]
      \o << Line("}", EmptyStr), Line("export type RegistryKey", EmptyStr) >>
      \o [i \in 1..Len(pkgs) |-> Line("declare module", Seg(pkgs[i]) \o << "/", "app", "/", "*" >>)]

\* a removal that takes the files directly in dir and leaves its subdirectories
RemoveTreeShallow(files, dir) ==
  {f \in files : ~(Under(f.path, dir)
                   /\ \A i \in (Len(dir) + 2)..Len(f.path) : f.path[i] # "/")}

\* fs.rm(dir, { recursive: true, force: true })
RemoveTree(files, dir) == {f \in files : ~(f.path = dir \/ Under(f.path, dir))}

\* ------------------------------------------------------------------------
\* State
\* ------------------------------------------------------------------------

VARIABLES
  repo,             \* the packages on disk: manifests and app/ trees
  launch,           \* command line and environment of the generator process
  fs,               \* generated files on disk: stubs and declaration file
  pc,               \* position of the run: idle, scan, resolve, declare, done, failed
  registry,         \* registry: Map of key -> RegistryItem, in insertion order
  consumerMounts,   \* consumerMounts: the resolved mounts
  pkgMountPrefixes, \* pkgMountPrefixes: package name -> insertion-ordered set of prefixes
  warnings,         \* the console.warn diagnostics of the run
  sortedPkgs,       \* sortedPkgJsonPaths: the packages in resolution order
  pkgIdx,           \* mount loop: index into sortedPkgJsonPaths
  inTurn,           \* mount loop: whether the package at pkgIdx is being resolved
  cpLive,           \* whether consumerPrefixes is the Set stored in pkgMountPrefixes
  cpAtTurn,         \* the content of consumerPrefixes when the package's turn began
  grpIdx,           \* mount loop: index into mountGroups
  featIdx,          \* mount loop: index into Object.entries(grp.features)
  prefIdx,          \* mount loop: position of the iterator over consumerPrefixes
  last              \* what the last completed run read and wrote

vars == << repo, launch, fs, pc, registry, consumerMounts, pkgMountPrefixes, warnings,
           sortedPkgs, pkgIdx, inTurn, cpLive, cpAtTurn, grpIdx, featIdx, prefIdx, last >>

\* the position of the mount loop
loopVars == << pkgIdx, inTurn, cpLive, cpAtTurn, grpIdx, featIdx, prefIdx >>

\* the local variables of main()
runVars == << registry, consumerMounts, pkgMountPrefixes, warnings, sortedPkgs, loopVars >>

\* longest mount prefix, in tokens, the mount loop is followed to
MaxPrefixLen == 9

HOST_APP_REL == getHostAppRel(launch.cli, launch.env)

GENERATED_ROOT == GeneratedRoot(HOST_APP_REL)

DECLARATION_PATH == DeclarationPath(HOST_APP_REL)

NoPrefixes == [n \in PkgNames |-> << >>]

NoLast == [valid |-> FALSE, repo |-> WsBasic, registry |-> << >>, files |-> {}]

Resting == {"idle", "done", "failed"}

\* the keys the registry build registers for a repository
ExposedKeys(rp) ==
  UNION {{rp[p].exposeRoutes[i].name :
            i \in {j \in 1..Len(rp[p].exposeRoutes) :
                     InternalExists(rp[p], rp[p].exposeRoutes[j].internalPath)}} :
         p \in {q \in Present(rp) : rp[q].cfg = "ok" /\ rp[q].hasApp}}

\* the repository without the feature entries whose key is not registered
StripUnknown(rp) ==
  LET keys == ExposedKeys(rp)
      keep(grp) == Group(grp.baseRoute, SelectSeq(grp.features, LAMBDA ft : ft.key \in keys))
  IN  [p \in Packages |->
         [rp[p] EXCEPT !.mountRoutes = [i \in 1..Len(@) |-> keep(@[i])]]]

StaleFile ==
  FileRec(PosixJoin(GENERATED_ROOT, << "obsolete", "/", "page", ".", "tsx" >>),
          << Line("// stale file", EmptyStr) >>)

\* the values of the run's local variables when main() starts
ResetRun ==
  /\ registry' = << >>
  /\ consumerMounts' = << >>
  /\ pkgMountPrefixes' = NoPrefixes
  /\ warnings' = {}
  /\ sortedPkgs' = << >>
  /\ pkgIdx' = 1
  /\ inTurn' = FALSE
  /\ cpLive' = FALSE
  /\ cpAtTurn' = << >>
  /\ grpIdx' = 1
  /\ featIdx' = 1
  /\ prefIdx' = 1

Init ==
  /\ repo \in Workspaces
  /\ launch \in Launches
  /\ fs = {}
  /\ pc = "idle"
  /\ registry = << >>
  /\ consumerMounts = << >>
  /\ pkgMountPrefixes = NoPrefixes
  /\ warnings = {}
  /\ sortedPkgs = << >>
  /\ pkgIdx = 1
  /\ inTurn = FALSE
  /\ cpLive = FALSE
  /\ cpAtTurn = << >>
  /\ grpIdx = 1
  /\ featIdx = 1
  /\ prefIdx = 1
  /\ last = NoLast

\* ------------------------------------------------------------------------
\* Between runs
\* ------------------------------------------------------------------------

\* manifests and packages are edited while no run is in progress; the last run
\* is remembered as long as the edits only touch feature entries of unknown keys
EditRepo ==
  /\ pc \in Resting
  /\ \E w \in Workspaces \ {repo} :
        /\ repo' = w
        /\ last' = IF last.valid /\ StripUnknown(w) = StripUnknown(last.repo)
                   THEN last ELSE NoLast
  /\ pc' = "idle"
  /\ ResetRun
  /\ UNCHANGED << launch, fs >>

\* somebody puts a file of their own under the output root
PlaceStaleFile ==
  /\ pc \in Resting
  /\ StaleFile \notin fs
  /\ fs' = WriteFile(fs, StaleFile.path, StaleFile.content)
  /\ pc' = "idle"
  /\ ResetRun
  /\ UNCHANGED << repo, launch, last >>

\* ------------------------------------------------------------------------
\* One run of main()
\* ------------------------------------------------------------------------

\* step 1: fs.rm(GENERATED_ROOT), then the package.json scan
CleanOutput ==
  /\ pc \in Resting
  /\ fs' = RemoveTree(fs, GENERATED_ROOT)
  /\ pc' = "scan"
  /\ ResetRun
  /\ UNCHANGED << repo, launch, last >>

\* a load failure that is noticed in the host package only
LoadFailsInHostOnly(rp) == rp["web"].present /\ rp["web"].cfg = "bad"

LoadFails(rp) == \E p \in Present(rp) : rp[p].cfg = "bad"

\* a registry that holds the entries of the first package of the processing
\* order only when the mount loop begins
BuildRegistryOfFirstOnly ==
  /\ pc = "scan"
  /\ ~LoadFails(repo)
  /\ registry' = BuildRegistryIn(<< >>, repo, SubSeq(sortedPkgJsonPaths(repo), 1, 1))
  /\ sortedPkgs' = sortedPkgJsonPaths(repo)
  /\ pc' = "resolve"
  /\ UNCHANGED << repo, launch, fs, consumerMounts, pkgMountPrefixes, warnings,
                  loopVars, last >>

\* the registry loop; the scan lists the package.json files in any order
BuildRegistry ==
  /\ pc = "scan"
  /\ ~LoadFails(repo)
  /\ \E order \in Orders(Present(repo)) : registry' = BuildRegistryIn(<< >>, repo, order)
  /\ sortedPkgs' = sortedPkgJsonPaths(repo)
  /\ pc' = "resolve"
  /\ UNCHANGED << repo, launch, fs, consumerMounts, pkgMountPrefixes, warnings,
                  loopVars, last >>

\* freshImport of a routes.config throws: main() rejects, process.exit(1)
AbortOnManifest ==
  /\ pc = "scan"
  /\ LoadFails(repo)
  /\ pc' = "failed"
  /\ UNCHANGED << repo, launch, fs, runVars, last >>

CurPkg == sortedPkgs[pkgIdx]

CurGroups == MountGroups(repo[CurPkg])

CurGroup == CurGroups[grpIdx]

CurFeat == CurGroup.features[featIdx]

\* a default of the root prefix that only the selected host gets
ConsumerPrefixesHostOnly ==
  IF cpLive THEN pkgMountPrefixes[PkgName(CurPkg)]
  ELSE IF PkgDir(CurPkg) = HOST_APP_REL THEN << EmptyStr >> ELSE << >>

\* an iterator that visits the root prefix before the recorded ones
ConsumerPrefixesRootToo ==
  IF cpLive THEN << EmptyStr >> \o pkgMountPrefixes[PkgName(CurPkg)] ELSE << EmptyStr >>

\* an iterator that stops after the first prefix
ConsumerPrefixesFirstOnly ==
  IF cpLive THEN SubSeq(pkgMountPrefixes[PkgName(CurPkg)], 1, 1) ELSE << EmptyStr >>

\* consumerPrefixes as the iterator sees it now
ConsumerPrefixes ==
  IF cpLive THEN pkgMountPrefixes[PkgName(CurPkg)] ELSE << EmptyStr >>

\* a package without mount groups: continue
SkipPackage ==
  /\ pc = "resolve" /\ ~inTurn /\ pkgIdx <= Len(sortedPkgs)
  /\ Len(CurGroups) = 0
  /\ pkgIdx' = pkgIdx + 1
  /\ UNCHANGED << repo, launch, fs, pc, registry, consumerMounts, pkgMountPrefixes,
                  warnings, sortedPkgs, inTurn, cpLive, cpAtTurn, grpIdx, featIdx,
                  prefIdx, last >>

\* consumerPrefixes = pkgMountPrefixes.get(name) ?? new Set([''])
BeginPackage ==
  /\ pc = "resolve" /\ ~inTurn /\ pkgIdx <= Len(sortedPkgs)
  /\ Len(CurGroups) > 0
  /\ inTurn' = TRUE
  /\ cpLive' = (pkgMountPrefixes[PkgName(CurPkg)] # << >>)
  /\ cpAtTurn' = (IF pkgMountPrefixes[PkgName(CurPkg)] # << >>
                  THEN pkgMountPrefixes[PkgName(CurPkg)] ELSE << EmptyStr >>)
  /\ grpIdx' = 1 /\ featIdx' = 1 /\ prefIdx' = 1
  /\ UNCHANGED << repo, launch, fs, pc, registry, consumerMounts, pkgMountPrefixes,
                  warnings, sortedPkgs, pkgIdx, last >>

InGroup == pc = "resolve" /\ inTurn /\ grpIdx <= Len(CurGroups)

InFeature == InGroup /\ featIdx <= Len(CurGroup.features)

\* an unknown key that ends the loop over the features of its group
WarnUnknownKeyAndBreak ==
  /\ InFeature
  /\ ~RegistryHas(registry, CurFeat.key)
  /\ warnings' = warnings \cup {[key |-> CurFeat.key, pkg |-> PkgName(CurPkg)]}
  /\ featIdx' = Len(CurGroup.features) + 1
  /\ prefIdx' = 1
  /\ UNCHANGED << repo, launch, fs, pc, registry, consumerMounts, pkgMountPrefixes,
                  sortedPkgs, pkgIdx, inTurn, cpLive, cpAtTurn, grpIdx, last >>

\* registry.get(key) is undefined: warn and continue
WarnUnknownKey ==
  /\ InFeature
  /\ ~RegistryHas(registry, CurFeat.key)
  /\ warnings' = warnings \cup {[key |-> CurFeat.key, pkg |-> PkgName(CurPkg)]}
  /\ featIdx' = featIdx + 1
  /\ prefIdx' = 1
  /\ UNCHANGED << repo, launch, fs, pc, registry, consumerMounts, pkgMountPrefixes,
                  sortedPkgs, pkgIdx, inTurn, cpLive, cpAtTurn, grpIdx, last >>

\* the mount the loop body pushes for the prefix under the iterator
NextMount ==
  ConsumerMount(RegistryGet(registry, CurFeat.key),
                MountPrefix(ConsumerPrefixes[prefIdx], BaseSeg(CurGroup), CurFeat.slug))

\* one iteration of the loop over consumerPrefixes
MountStep ==
  /\ InFeature
  /\ RegistryHas(registry, CurFeat.key)
  /\ prefIdx <= Len(ConsumerPrefixes)
  /\ Len(NextMount.mountPrefix) <= MaxPrefixLen
  /\ consumerMounts' = Append(consumerMounts, NextMount)
  /\ pkgMountPrefixes' =
       [pkgMountPrefixes EXCEPT ![NextMount.srcPkg] = SetAdd(@, NextMount.mountPrefix)]
  /\ prefIdx' = prefIdx + 1
  /\ UNCHANGED << repo, launch, fs, pc, registry, warnings, sortedPkgs, pkgIdx, inTurn,
                  cpLive, cpAtTurn, grpIdx, featIdx, last >>

\* the iterator over consumerPrefixes is exhausted
NextFeature ==
  /\ InFeature
  /\ RegistryHas(registry, CurFeat.key)
  /\ prefIdx > Len(ConsumerPrefixes)
  /\ featIdx' = featIdx + 1
  /\ prefIdx' = 1
  /\ UNCHANGED << repo, launch, fs, pc, registry, consumerMounts, pkgMountPrefixes,
                  warnings, sortedPkgs, pkgIdx, inTurn, cpLive, cpAtTurn, grpIdx, last >>

NextGroup ==
  /\ InGroup
  /\ featIdx > Len(CurGroup.features)
  /\ grpIdx' = grpIdx + 1
  /\ featIdx' = 1
  /\ prefIdx' = 1
  /\ UNCHANGED << repo, launch, fs, pc, registry, consumerMounts, pkgMountPrefixes,
                  warnings, sortedPkgs, pkgIdx, inTurn, cpLive, cpAtTurn, last >>

EndPackage ==
  /\ pc = "resolve" /\ inTurn
  /\ grpIdx > Len(CurGroups)
  /\ inTurn' = FALSE
  /\ pkgIdx' = pkgIdx + 1
  /\ UNCHANGED << repo, launch, fs, pc, registry, consumerMounts, pkgMountPrefixes,
                  warnings, sortedPkgs, cpLive, cpAtTurn, grpIdx, featIdx, prefIdx, last >>

\* the mount loop is over: emit the stubs of all mounts
EmitStubs ==
  /\ pc = "resolve" /\ ~inTurn /\ pkgIdx > Len(sortedPkgs)
  /\ fs' = EmitMounts(fs, GENERATED_ROOT, consumerMounts)
  /\ pc' = "declare"
  /\ UNCHANGED << repo, launch, runVars, last >>

Generated(files) ==
  {f \in files : Under(f.path, GENERATED_ROOT) \/ f.path = DECLARATION_PATH}

\* write the declaration file; the run is complete
WriteDeclaration ==
  /\ pc = "declare"
  /\ fs' = WriteFile(fs, DECLARATION_PATH, DeclarationContent(registry))
  /\ pc' = "done"
  /\ last' = [valid |-> TRUE, repo |-> repo, registry |-> registry,
              files |-> Generated(fs')]
  /\ UNCHANGED << repo, launch, runVars >>

Next ==
  \/ EditRepo
  \/ PlaceStaleFile
  \/ CleanOutput
  \/ BuildRegistry
  \/ AbortOnManifest
  \/ SkipPackage
  \/ BeginPackage
  \/ WarnUnknownKey
  \/ MountStep
  \/ NextFeature
  \/ NextGroup
  \/ EndPackage
  \/ EmitStubs
  \/ WriteDeclaration

Spec == Init /\ [][Next]_vars

\* ------------------------------------------------------------------------
\* Properties
\* ------------------------------------------------------------------------

Range(seq) == {seq[i] : i \in 1..Len(seq)}

\* the files under the output root
OutputFiles == {f \in fs : Under(f.path, GENERATED_ROOT)}

FileAt(path) == \E f \in fs : f.path = path

\* outputRoot/mountPrefix/routeFile
StubPath(mountPrefix, routeFile) ==
  PosixJoin(GENERATED_ROOT, PosixJoin(mountPrefix, routeFile))

\* the stub paths of the resolved mounts of the run
CurrentStubPaths ==
  UNION {{StubPath(m.mountPrefix, r) : r \in Range(m.routeFiles)} :
         m \in Range(consumerMounts)}

\* the run has written the declaration file and returned
Finishes == pc = "declare" /\ pc' = "done"

\* C1: after every completed run the files under the output root are exactly
\* the stubs of that run's resolved mounts: nothing an earlier run or a person
\* left there survives, and every current stub exists.
C1_OutputIsExactlyCurrentStubs ==
  pc = "done" => {f.path : f \in OutputFiles} = CurrentStubPaths

\* a completed run on the moved mount: the base2 stub is there, nothing is left
\* under base1 and the hand-placed file is gone
C1_Witness ==
  /\ pc = "done" /\ repo = WsMoved
  /\ FileAt(StubPath(<< "base2", "/", "a" >>, << "page", ".", "tsx" >>))
  /\ ~FileAt(StubPath(<< "base1", "/", "a" >>, << "page", ".", "tsx" >>))
  /\ ~FileAt(StaleFile.path)

\* the (mount, route file) pairs whose stub goes to path
WritersOf(path) ==
  {w \in UNION {{[m |-> m, r |-> r] : r \in Range(m.routeFiles)} :
                m \in Range(consumerMounts)} :
     StubPath(w.m.mountPrefix, w.r) = path}

\* the two-line re-export, both lines naming the same specifier
IsReExport(content) ==
  /\ Len(content) = 2
  /\ content[1].text = "export { default } from"
  /\ content[2].text = "export * from"
  /\ content[1].arg = content[2].arg

\* C9: after emission there is, for every resolved mount and each of its route
\* files, exactly one file at outputRoot/mountPrefix/routeFile; it holds exactly
\* the two re-export lines, both with the same specifier, and the specifier is
\* <provider>/app/<routeFile without extension> of a mount written there.
C9_OneStubPerRouteFile ==
  pc \in {"declare", "done"} =>
    \A m \in Range(consumerMounts) : \A r \in Range(m.routeFiles) :
      LET at == {f \in fs : f.path = StubPath(m.mountPrefix, r)}
      IN  /\ Cardinality(at) = 1
          /\ \A f \in at :
               /\ IsReExport(f.content)
               /\ \E w \in WritersOf(f.path) :
                    f.content[1].arg
                      = Seg(w.m.srcPkg) \o << "/", "app", "/" >> \o StripExtension(w.r)

\* the stub of sub/layout.ts of key fa-sub (internalPath sub), mounted at base2/s
C9_Witness ==
  /\ pc = "done" /\ repo = WsMoved
  /\ \E f \in fs :
       /\ f.path = StubPath(<< "base2", "/", "s" >>, << "sub", "/", "layout", ".", "ts" >>)
       /\ IsReExport(f.content)

\* <provider>/app/<dirs>/<base> of a source file
SourceSpecifier(p, file) ==
  JoinSegs(<< Seg(PkgName(p)), Seg("app") >> \o DirSegs(file) \o << Seg(file.base) >>)

\* the last n tokens of s
Suffix(s, n) == SubSeq(s, Len(s) - n + 1, Len(s))

\* C10: the specifier of every generated stub is <provider>/app/<dirs>/<base>
\* of a route file of the provider's app/ tree: extension stripped, forward
\* slashes, internalPath included, and nothing of the mount prefix in it; the
\* stub carries the file name of that source file.
C10_SpecifierIsSourceWithoutExtension ==
  pc \in {"declare", "done"} =>
    \A f \in OutputFiles :
      \E p \in Present(repo) : \E src \in repo[p].files :
        /\ src.base \in RouteBases /\ src.ext \in RouteExts
        /\ f.content[1].arg = SourceSpecifier(p, src)
        /\ f.content[2].arg = SourceSpecifier(p, src)
        /\ Suffix(f.path, 4) = << "/" >> \o FileName(src)

\* stubs of all four extensions exist, among them one below an internalPath
\* and one of a nested mount
C10_Witness ==
  /\ pc = "done"
  /\ \A e \in RouteExts : \E f \in OutputFiles : Suffix(f.path, 1) = << e >>
  /\ \E f \in OutputFiles :
       /\ f.path = StubPath(<< "a", "/", "custom", "/", "b" >>, << "[id]", "/", "route", ".", "js" >>)
       /\ f.content[1].arg = << "b", "/", "app", "/", "[id]", "/", "route" >>

\* the package the output tree belongs to
HostPkgs == {p \in Present(repo) : PkgDir(p) = HOST_APP_REL}

PkgOfName(name) == CHOOSE p \in Packages : PkgName(p) = name

\* the feature entries of package p whose key is registered
Entries(p) ==
  {e \in UNION {{[base |-> BaseSeg(g), key |-> ft.key, slug |-> ft.slug] :
                   ft \in Range(g.features)} : g \in Range(MountGroups(repo[p]))} :
     RegistryHas(registry, e.key)}

ProviderOf(e) == PkgOfName(RegistryGet(registry, e.key).srcPkg)

\* the path prefix/baseRoute/slug the mount of entry e is expected at
Below(prefix, e) ==
  LET own == IF e.base = EmptyStr THEN e.slug ELSE PosixJoin(e.base, e.slug)
  IN  IF prefix = EmptyStr THEN own ELSE PosixJoin(prefix, own)

\* every route file of key has its stub under prefix
StubsAt(prefix, key) ==
  \A r \in Range(RebasedRouteFiles(RegistryGet(registry, key))) :
     FileAt(StubPath(prefix, r))

PosOf(p) == CHOOSE i \in 1..Len(sortedPkgs) : sortedPkgs[i] = p

\* C2 (nesting): when the host mounts a key of consumer A at hostPrefix and A
\* mounts a key of provider B under customPath and slug s, a completed run
\* leaves a stub at outputRoot/hostPrefix/customPath/s/f for every route file f
\* of B's key.
C2_NestedUnderHostMount ==
  pc = "done" =>
    \A h \in HostPkgs : \A eA \in Entries(h) :
      ProviderOf(eA) # h =>
        \A eB \in Entries(ProviderOf(eA)) :
          StubsAt(Below(Below(EmptyStr, eA), eB), eB.key)

\* the chains host -> P1 -> P2 (-> P3) of distinct packages, with the prefix
\* each link produces; ordered tells whether the chain must follow the order
\* of resolution
ChainsHold(ordered) ==
  \A h \in HostPkgs : \A e1 \in Entries(h) :
    LET p1 == ProviderOf(e1) IN
    (p1 # h /\ (ordered => PosOf(h) = 1)) =>
      \A e2 \in Entries(p1) :
        LET p2 == ProviderOf(e2) IN
        p2 \notin {h, p1} =>
          /\ StubsAt(Below(Below(EmptyStr, e1), e2), e2.key)
          /\ \A e3 \in Entries(p2) :
               (/\ ProviderOf(e3) \notin {h, p1, p2}
                /\ (ordered => PosOf(p1) < PosOf(p2)))
               => StubsAt(Below(Below(Below(EmptyStr, e1), e2), e3), e3.key)

\* C8 as claimed: for every acyclic chain host mounts P1, P1 mounts P2, ...,
\* Pn's stubs are under the concatenation of the mount paths of the chain,
\* whatever the order of the packages' paths.
C8_ChainAnyOrder == pc = "done" => ChainsHold(FALSE)

\* C8 as amended: the same, for the chains whose packages are resolved in chain
\* order, the host first and each consumer before the consumer it mounts.
C8_ChainInResolutionOrder == pc = "done" => ChainsHold(TRUE)

\* the chain web -> a -> b -> zhost: zhost's page under a/c/b/z
C8_Witness ==
  /\ pc = "done" /\ repo = WsChainUp /\ HOST_APP_REL = DefaultHostApp
  /\ FileAt(StubPath(<< "a", "/", "c", "/", "b", "/", "z" >>, << "page", ".", "js" >>))

\* C3 (idempotence): a run that follows a completed run, with the manifests
\* and source trees the completed run saw, leaves the output tree of that run:
\* the same stub paths, stub contents and declaration file.
C3_ConsecutiveRunsIdentical ==
  [][(Finishes /\ last.valid /\ last.repo = repo) => Generated(fs') = last.files]_vars

\* the feature entry under the iterator, as an entry of the current package
CurEntry == [base |-> BaseSeg(CurGroup), key |-> CurFeat.key, slug |-> CurFeat.slug]

\* the loop over consumerPrefixes is at a feature entry whose key is registered
AtKnownFeature == InFeature /\ RegistryHas(registry, CurFeat.key)

\* the feature entry under the iterator mounts a key of the current package
AtSelfMount ==
  AtKnownFeature /\ RegistryGet(registry, CurFeat.key).srcPkg = PkgName(CurPkg)

\* C4 (termination): a run ends, and the list of resolved mounts is finite:
\* for every feature entry the loop over the prefixes of the package makes at
\* most one iteration per prefix the package had when its turn began, also when
\* the package mounts its own key or packages mount each other.
C4_PrefixLoopEnds == AtKnownFeature => prefIdx <= Len(cpAtTurn) + 1

\* C5 (self-mount): for a package P that mounts its own key k under b with
\* slug s, every resolved mount the entry produces is the mount of k at p/b/s
\* for a prefix p at which P was mounted at its turn, one per prefix.
C5_SelfMountOncePerPrefix ==
  [][(MountStep /\ AtSelfMount) =>
       /\ prefIdx <= Len(cpAtTurn)
       /\ consumerMounts' =
            Append(consumerMounts,
                   ConsumerMount(RegistryGet(registry, CurFeat.key),
                                 Below(cpAtTurn[prefIdx], CurEntry)))]_vars

\* C6 (unknown key): a feature entry whose key is not registered only adds a
\* diagnostic: no resolved mount, no index entry, no abort, the loop goes on
\* with the next entry; and the run completes with the output of the run on
\* the same repository without the unknown entries.
C6_UnknownKeyOnlyWarns ==
  [][/\ WarnUnknownKey =>
          /\ consumerMounts' = consumerMounts
          /\ pkgMountPrefixes' = pkgMountPrefixes
          /\ fs' = fs
          /\ pc' = "resolve"
          /\ warnings' # warnings
          /\ << pkgIdx', grpIdx', featIdx' >> = << pkgIdx, grpIdx, featIdx + 1 >>
     /\ (/\ Finishes
         /\ last.valid
         /\ last.registry = registry
         /\ StripUnknown(last.repo) = StripUnknown(repo))
        => Generated(fs') = last.files]_vars

\* a run on WsUnknown is about to complete after a run on WsBasic
C6_Witness ==
  /\ pc = "declare" /\ repo = WsUnknown
  /\ last.valid /\ last.repo = WsBasic /\ last.registry = registry
  /\ warnings = {[key |-> "ghost", pkg |-> "web"]}
  /\ FileAt(StubPath(<< "base1", "/", "a" >>, << "page", ".", "tsx" >>))

\* the resolved mount of key under prefix is in the list
HasMount(key, prefix) ==
  \E i \in 1..Len(consumerMounts) :
     consumerMounts[i] = ConsumerMount(RegistryGet(registry, key), prefix)

\* C7 (fan-out): when the loop over the prefixes of the consuming package has
\* ended for a feature entry, the list holds a resolved mount of the entry's
\* key under every prefix the package had at its turn; this for every group
\* that references the key; and the completed run has a stub for every route
\* file of every resolved mount.
C7_EveryPrefixKeepsItsMount ==
  /\ (AtKnownFeature /\ prefIdx > Len(ConsumerPrefixes)) =>
        \A i \in 1..Len(cpAtTurn) : HasMount(CurFeat.key, Below(cpAtTurn[i], CurEntry))
  /\ pc = "done" =>
        \A i \in 1..Len(consumerMounts) :
           \A r \in Range(consumerMounts[i].routeFiles) :
              \E f \in fs : /\ f.path = StubPath(consumerMounts[i].mountPrefix, r)
                           /\ IsReExport(f.content)

\* two groups of the host mount a, so a is mounted at x/a and y/a, and b,
\* which a mounts, has its stubs under both
C7_Witness ==
  /\ pc = "done" /\ repo = WsFanout
  /\ FileAt(StubPath(<< "x", "/", "a" >>, << "page", ".", "tsx" >>))
  /\ FileAt(StubPath(<< "y", "/", "a" >>, << "page", ".", "tsx" >>))
  /\ FileAt(StubPath(<< "x", "/", "a", "/", "b" >>, << "page", ".", "jsx" >>))
  /\ FileAt(StubPath(<< "y", "/", "a", "/", "b" >>, << "page", ".", "jsx" >>))

\* a file of the output root is deleted by the step
OutputFileDeleted ==
  \E f \in OutputFiles : \A g \in fs' : g.path # f.path

\* the mount loop has gone through all packages
ResolutionFinished == pc = "resolve" /\ ~inTurn /\ pkgIdx > Len(sortedPkgs)

\* C11 (pipeline order): the steps of a run happen in the order registry build,
\* mount resolution, wipe of the output root, stub emission, declaration
\* emission: a step that deletes files of the output root is taken only when
\* the registry is built and the mount resolution has finished.
C11_WipeAfterResolution ==
  [][OutputFileDeleted => ResolutionFinished]_vars

\* some present package has a manifest that fails to load
HasBadManifest == \E p \in Present(repo) : repo[p].cfg = "bad"

\* C12 (fatal manifest error): with a manifest that fails to load, in whichever
\* package, a run that starts goes to the failed outcome without building a
\* registry, and no step of it writes a file: no stub and no declaration file.
C12_BadManifestAbortsWithoutOutput ==
  [][HasBadManifest =>
       /\ (pc \in Resting /\ pc' \notin Resting) => (pc' = "scan" /\ fs' \subseteq fs)
       /\ pc \notin Resting => (pc = "scan" /\ pc' = "failed" /\ fs' = fs)]_vars

\* a run on the repository with the bad manifest in package b has failed after
\* a run that completed: no stub is there
C12_Witness ==
  /\ pc = "failed" /\ repo = WsBad
  /\ FileAt(DECLARATION_PATH) /\ OutputFiles = {}

\* the same with the bad manifest in the host package
C12_WitnessHost == pc = "failed" /\ repo = WsBadHost /\ OutputFiles = {}

\* a segment that is "." or empty stands for no segment
Elided(seg) == IF seg = DotStr THEN EmptyStr ELSE seg

\* the non-empty parts, in order, with "/" between them
RECURSIVE PlainJoin(_)
PlainJoin(parts) ==
  IF Len(parts) = 0 THEN EmptyStr
  ELSE LET rest == PlainJoin(Tail(parts)) IN
       IF Head(parts) = EmptyStr THEN rest
       ELSE IF rest = EmptyStr THEN Head(parts)
       ELSE Head(parts) \o << "/" >> \o rest

\* the stub path of route file r for the mount the loop is about to push, with
\* the "." and empty segments of consumer prefix, baseRoute and slug left out
ElidedStubPath(r) ==
  PlainJoin(<< GENERATED_ROOT, Elided(ConsumerPrefixes[prefIdx]),
               Elided(CurGroup.baseRoute), Elided(CurFeat.slug), r >>)

\* C13 (empty segments): a baseRoute or slug that is "." or empty contributes no
\* path segment: the stub of every route file of a mount goes to the path made
\* of the other segments only, also when the prefix the consumer inherited came
\* from such a mount; and the stubs are emitted at these paths.
C13_EmptySegmentsElided ==
  [][/\ MountStep =>
          \A r \in Range(NextMount.routeFiles) :
             DestPath(GENERATED_ROOT, NextMount.mountPrefix, r) = ElidedStubPath(r)
     /\ (pc = "resolve" /\ pc' = "declare") =>
          \A i \in 1..Len(consumerMounts) :
             \A r \in Range(consumerMounts[i].routeFiles) :
                \E f \in fs' :
                   f.path = PlainJoin(<< GENERATED_ROOT,
                                         Elided(consumerMounts[i].mountPrefix), r >>)]_vars

\* the run on WsDots: a, mounted at "." / ".", has its page at the output root;
\* b, mounted at c / "", at c; zhost, mounted by a at "" / z, at z
C13_Witness ==
  /\ pc = "done" /\ repo = WsDots
  /\ \E i \in 1..Len(consumerMounts) : consumerMounts[i].mountPrefix = DotStr
  /\ FileAt(GENERATED_ROOT \o << "/", "page", ".", "tsx" >>)
  /\ FileAt(GENERATED_ROOT \o << "/", "c", "/", "page", ".", "jsx" >>)
  /\ FileAt(GENERATED_ROOT \o << "/", "z", "/", "page", ".", "js" >>)

\* the registered feature entries of all packages, each with its consumer
AllEntries ==
  UNION {{[pkg |-> q, e |-> e] : e \in Entries(q)} : q \in Present(repo)}

\* no feature entry of any package mounts a key of p
Unmounted(p) == \A x \in AllEntries : ProviderOf(x.e) # p

\* the stub files that re-export a file of package p
StubsOf(p) ==
  {f \in OutputFiles : StartsWith(f.content[1].arg, << PkgName(p), "/", "app" >>)}

\* C14 (mount by a package that is not the host): when a package that is not
\* the host and that no package mounts declares a feature entry for a known key
\* under baseRoute b with slug s, the completed run has the stubs of the key's
\* route files at outputRoot/b/s; when this entry is the only one that mounts
\* the provider, the provider has no stub anywhere else, so that after b has
\* changed no stub is left at the former location.
C14_UnmountedConsumerMountsAtRoot ==
  pc = "done" =>
    \A p \in Present(repo) :
      (PkgDir(p) # HOST_APP_REL /\ Unmounted(p)) =>
        \A e \in Entries(p) :
          /\ StubsAt(Below(EmptyStr, e), e.key)
          /\ (\A x \in AllEntries : ProviderOf(x.e) = ProviderOf(e) => x = [pkg |-> p, e |-> e])
             => \A f \in StubsOf(ProviderOf(e)) :
                  \E r \in Range(RebasedRouteFiles(RegistryGet(registry, e.key))) :
                     f.path = StubPath(Below(EmptyStr, e), r)

\* zhost, which is not the host and which nobody mounts, mounts b, now under
\* t2, and b's stubs are at t2/b and not at t1/b
C14_Witness ==
  /\ pc = "done" /\ repo = WsTempMoved /\ HOST_APP_REL = DefaultHostApp
  /\ FileAt(StubPath(<< "t2", "/", "b" >>, << "page", ".", "jsx" >>))
  /\ FileAt(StubPath(<< "t2", "/", "b" >>, << "[id]", "/", "route", ".", "js" >>))
  /\ ~FileAt(StubPath(<< "t1", "/", "b" >>, << "page", ".", "jsx" >>))

\* the host the precedence flag > environment > configuration > default selects
SelectedHost ==
  CASE launch.cli.form \in {"eq", "sep"} -> launch.cli.val
    [] OTHER -> IF launch.env # EmptyStr THEN launch.env
                ELSE IF ConfigHostApp # EmptyStr THEN ConfigHostApp
                ELSE << "apps", "/", "web" >>

SelectedRoot == SelectedHost \o << "/", "app", "/", "(feature-routes)" >>

\* C15 (host selection): the host is the value of --hostApp (either form) if
\* given, else of HOST_APP if set, else of the configuration file, else
\* apps/web; every stub of a run is under <host>/app/(feature-routes), and every
\* re-export file there is, is under it.
C15_StubsUnderSelectedHost ==
  /\ HOST_APP_REL = SelectedHost
  /\ \A f \in fs : IsReExport(f.content) => StartsWith(f.path, SelectedRoot \o << "/" >>)
  /\ pc \in {"declare", "done"} =>
       \A i \in 1..Len(consumerMounts) :
          \A r \in Range(consumerMounts[i].routeFiles) :
             FileAt(PlainJoin(<< SelectedRoot, Elided(consumerMounts[i].mountPrefix), r >>))

\* started with "--hostApp apps/web" and HOST_APP=zhost: the flag wins and the
\* stubs are under apps/web
C15_Witness ==
  /\ pc = "done" /\ repo = WsBasic
  /\ launch = [cli |-> CliSep(<< "apps", "/", "web" >>), env |-> << "zhost" >>]
  /\ FileAt(<< "apps", "/", "web", "/", "app", "/", "(feature-routes)", "/",
               "base1", "/", "a", "/", "page", ".", "tsx" >>)

\* the pairs of stubs of one route file of one provider under two prefixes
FanoutCopies ==
  {c \in UNION {{[m1 |-> consumerMounts[i], m2 |-> consumerMounts[j], r |-> r] :
                   r \in Range(consumerMounts[i].routeFiles)
                         \cap Range(consumerMounts[j].routeFiles)} :
                i, j \in 1..Len(consumerMounts)} :
     /\ c.m1.srcPkg = c.m2.srcPkg
     /\ StubPath(c.m1.mountPrefix, c.r) # StubPath(c.m2.mountPrefix, c.r)}

\* C16 (fan-out copies): a provider mounted at two different prefixes has two
\* stub copies of each route file, one under each prefix, and the import
\* specifiers of the two copies are distinct from each other.
C16_CopiesHaveDistinctSpecifiers ==
  pc = "done" =>
    \A c \in FanoutCopies :
      \E f1, f2 \in fs :
        /\ f1.path = StubPath(c.m1.mountPrefix, c.r)
        /\ f2.path = StubPath(c.m2.mountPrefix, c.r)
        /\ IsReExport(f1.content) /\ IsReExport(f2.content)
        /\ f1.content[1].arg # f2.content[1].arg

\* the content of the declaration file among files
DeclarationIn(files) == {f.content : f \in {g \in files : g.path = DECLARATION_PATH}}

\* the number of lines of content with this text and this argument
CountLines(content, text, arg) ==
  Cardinality({i \in 1..Len(content) : content[i].text = text /\ content[i].arg = arg})

RegistryKeys == {registry[i].key : i \in 1..Len(registry)}

RegistryProviders == {registry[i].srcPkg : i \in 1..Len(registry)}

WildcardModule(name) == << name, "/", "app", "/", "*" >>

\* C17 (declaration artifact): the run writes one declaration file; it lists
\* every registry key exactly once and nothing that is no key; it declares the
\* module '<provider>/app/*' exactly once for each provider in the registry,
\* mounted or not, and for nothing else; it is the same as the one of the last
\* run when the registry is the same; and writing it leaves the stubs as they
\* are.
C17_DeclarationListsRegistry ==
  [][Finishes =>
       /\ Cardinality(DeclarationIn(fs')) = 1
       /\ \A d \in DeclarationIn(fs') :
            /\ \A k \in RegistryKeys : CountLines(d, "RegistryEntry", << k >>) = 1
            /\ \A n \in RegistryProviders :
                 CountLines(d, "declare module", WildcardModule(n)) = 1
            /\ \A i \in 1..Len(d) :
                 /\ d[i].text = "RegistryEntry" => \E k \in RegistryKeys : d[i].arg = << k >>
                 /\ d[i].text = "declare module"
                      => \E n \in RegistryProviders : d[i].arg = WildcardModule(n)
       /\ (last.valid /\ last.registry = registry)
            => DeclarationIn(fs') = DeclarationIn(last.files)
       /\ {f \in fs' : Under(f.path, GENERATED_ROOT)} = OutputFiles]_vars

\* the declaration file of the run on WsBasic: three keys, and the modules of
\* a and of b, which nobody mounts
C17_Witness ==
  /\ pc = "done" /\ repo = WsBasic
  /\ \E d \in DeclarationIn(fs) :
       /\ CountLines(d, "RegistryEntry", << "fa-root" >>) = 1
       /\ CountLines(d, "RegistryEntry", << "fa-sub" >>) = 1
       /\ CountLines(d, "RegistryEntry", << "fb-root" >>) = 1
       /\ CountLines(d, "declare module", WildcardModule("a")) = 1
       /\ CountLines(d, "declare module", WildcardModule("b")) = 1
  /\ \A f \in OutputFiles : f.content[1].arg[1] # "b"

\* C18 (processing order): the mount resolution processes the selected host
\* package first and the other packages after it in the lexical order of their
\* paths.
C18_HostFirstThenLexical ==
  Len(sortedPkgs) > 0 =>
    /\ \A h \in HostPkgs : sortedPkgs[1] = h
    /\ \A i, j \in 1..Len(sortedPkgs) :
         (i < j /\ sortedPkgs[i] \notin HostPkgs /\ sortedPkgs[j] \notin HostPkgs)
           => LocaleLess(PkgDir(sortedPkgs[i]), PkgDir(sortedPkgs[j]))

\* C19 (consumer prefixes): at its turn a package iterates the prefixes recorded
\* for it so far; only the host, when nothing is recorded for it, gets the
\* single root prefix instead, and a package that is not the host never does.
C19_RootDefaultForHostOnly ==
  inTurn =>
    /\ cpLive => cpAtTurn # << >>
    /\ ~cpLive => (cpAtTurn = << EmptyStr >> /\ PkgDir(CurPkg) = HOST_APP_REL)

\* the step follows the claimed resolution of the feature entry under the
\* iterator: one mount per prefix the package had at its turn
ResolvesPerPrefix ==
  /\ MountStep =>
       /\ prefIdx <= Len(cpAtTurn)
       /\ consumerMounts' =
            Append(consumerMounts,
                   [srcPkg |-> RegistryGet(registry, CurFeat.key).srcPkg,
                    routeFiles |-> RebasedRouteFiles(RegistryGet(registry, CurFeat.key)),
                    mountPrefix |-> Below(cpAtTurn[prefIdx], CurEntry)])
  /\ NextFeature => prefIdx = Len(cpAtTurn) + 1
  /\ consumerMounts' # consumerMounts => (MountStep \/ consumerMounts' = << >>)

\* C20 (resolution step): for a package processed with the set C of consumer
\* prefixes, every feature entry with a registered key yields exactly |C|
\* resolved mounts, one per prefix c of C, with prefix c/baseRoute/slug, the
\* provider and the route files of the registry item; nothing else is added to
\* the list of resolved mounts.
C20_OneMountPerPrefixAndEntry == [][ResolvesPerPrefix]_vars

\* the packages whose turn in the mount loop is over
TurnOver == {sortedPkgs[i] : i \in 1..(pkgIdx - 1)}

\* C21 (single pass): the packages take their turns one after the other in the
\* processing order, each once; no resolved mount is produced for a package
\* whose turn is over; and every resolved mount of a package's mount groups has
\* a prefix c/baseRoute/slug with c a prefix known when its turn began.
C21_OneTurnPerPackage ==
  [][/\ pkgIdx' # pkgIdx => (pkgIdx' = pkgIdx + 1 \/ pkgIdx' = 1)
     /\ MountStep =>
          /\ CurPkg \notin TurnOver
          /\ \E c \in Range(cpAtTurn) :
                consumerMounts'[Len(consumerMounts')].mountPrefix = Below(c, CurEntry)]_vars

\* C22 (index invariant): while a run resolves mounts no prefix leaves the
\* index, and after every step the prefix of every resolved mount is in the
\* index entry of the mount's provider.
C22_IndexGrowsAndCoversMounts ==
  [][(pc = "resolve" /\ pc' \in {"resolve", "declare"}) =>
       /\ \A n \in PkgNames :
            Range(pkgMountPrefixes[n]) \subseteq Range(pkgMountPrefixes'[n])
       /\ \A i \in 1..Len(consumerMounts') :
            consumerMounts'[i].mountPrefix
              \in Range(pkgMountPrefixes'[consumerMounts'[i].srcPkg])]_vars

\* a is mounted by two groups of the host: its index entry holds x/a and y/a,
\* and b's holds the two prefixes under them
C22_Witness ==
  /\ pc = "declare" /\ repo = WsFanout
  /\ pkgMountPrefixes["a"] = << << "x", "/", "a" >>, << "y", "/", "a" >> >>
  /\ pkgMountPrefixes["b"] = << << "x", "/", "a", "/", "b" >>, << "y", "/", "a", "/", "b" >> >>
  /\ Len(consumerMounts) = 4

\* the expose entries a scan in this order of packages comes to register, in
\* scan order: those of packages with a manifest and an app/, whose
\* internalPath exists
RECURSIVE ScannedEntries(_)
ScannedEntries(order) ==
  IF Len(order) = 0 THEN << >>
  ELSE LET p == repo[Head(order)]
           taken == IF p.cfg = "ok" /\ p.hasApp
                    THEN SelectSeq(p.exposeRoutes,
                                   LAMBDA e : InternalExists(p, e.internalPath))
                    ELSE << >>
       IN  [i \in 1..Len(taken) |->
              [key |-> taken[i].name, srcPkg |-> PkgName(Head(order)),
               internalPath |-> taken[i].internalPath]]
           \o ScannedEntries(Tail(order))

\* reg holds, for every key of the scanned entries, exactly one item, and it
\* is the item of the last scanned entry of that key
LastScannedWins(reg, scanned) ==
  /\ {reg[i].key : i \in 1..Len(reg)} = {scanned[j].key : j \in 1..Len(scanned)}
  /\ \A i, j \in 1..Len(reg) : reg[i].key = reg[j].key => i = j
  /\ \A i \in 1..Len(reg) :
       LET l == CHOOSE j \in 1..Len(scanned) :
                  /\ scanned[j].key = reg[i].key
                  /\ \A k \in (j + 1)..Len(scanned) : scanned[k].key # reg[i].key
       IN  /\ reg[i].srcPkg = scanned[l].srcPkg
           /\ reg[i].internalPath = scanned[l].internalPath
  \* keys stand in the order in which they were first scanned
  /\ \A i, j \in 1..Len(reg) :
       i < j => \E a \in 1..Len(scanned) :
                  /\ scanned[a].key = reg[i].key
                  /\ \A b \in 1..a : scanned[b].key # reg[j].key

\* C23 (duplicate key): the registry build ends without error also when a name
\* is exposed twice, in one package or in two; there is a scan order of the
\* packages for which the registry holds exactly one item per key, that of the
\* entry scanned last; and every mount of a key has the provider and the route
\* files of that item.
C23_LastScannedEntryWins ==
  [][/\ (pc = "scan" /\ ~HasBadManifest) =>
          /\ pc' = "resolve"
          /\ \E order \in Orders(Present(repo)) :
                LastScannedWins(registry', ScannedEntries(order))
     /\ MountStep =>
          \E i \in 1..Len(registry) :
             /\ registry[i].key = CurFeat.key
             /\ consumerMounts'[Len(consumerMounts')].srcPkg = registry[i].srcPkg
             /\ consumerMounts'[Len(consumerMounts')].routeFiles
                  = RebasedRouteFiles(registry[i])]_vars

\* b was scanned after a (a's own key stands before b's in the registry): the
\* item of "shared" is b's, and the stub at d is b's page
C23_Witness ==
  /\ pc = "done" /\ repo = WsDupKeys
  /\ [i \in 1..Len(registry) |-> << registry[i].key, registry[i].srcPkg >>]
       = << << "fa-root", "a" >>, << "shared", "b" >>, << "fb-root", "b" >> >>
  /\ \E f \in fs : /\ f.path = StubPath(<< "d" >>, << "page", ".", "jsx" >>)
                   /\ f.content[1].arg = << "b", "/", "app", "/", "page" >>

\* app/<internalPath> is a directory of package p
HasDirectory(p, internalPath) ==
  \/ internalPath \in {DotStr, EmptyStr}
  \/ \E f \in repo[p].files :
        StartsWith(JoinSegs(DirSegs(f)) \o << "/" >>, internalPath \o << "/" >>)

\* the names of the expose entries that are not passed over
RegistrableKeys ==
  UNION {{repo[p].exposeRoutes[i].name :
            i \in {j \in 1..Len(repo[p].exposeRoutes) :
                     HasDirectory(p, repo[p].exposeRoutes[j].internalPath)}} :
         p \in {q \in Present(repo) : repo[q].cfg = "ok" /\ repo[q].hasApp}}

\* the feature entries of all mount groups of all packages with a manifest
DeclaredFeatures ==
  UNION {UNION {{[pkg |-> p, base |-> BaseSeg(g), key |-> ft.key, slug |-> ft.slug] :
                   ft \in Range(g.features)} : g \in Range(repo[p].mountRoutes)} :
         p \in {q \in Present(repo) : repo[q].cfg = "ok"}}

\* C24 (silent skips): an expose entry whose internalPath does not exist, a
\* package without app/, a package without manifest and a mount group without
\* features contribute nothing and raise no error: a run fails only on a
\* manifest that does not load, the registry holds exactly the keys of the
\* other expose entries, and every resolved mount comes from a feature entry.
C24_SkipsAreSilent ==
  /\ pc = "failed" => HasBadManifest
  /\ pc \in {"resolve", "declare", "done"} =>
       /\ RegistryKeys = RegistrableKeys
       /\ \A i \in 1..Len(consumerMounts) :
            \E d \in DeclaredFeatures :
               /\ d.key \in RegistryKeys
               /\ consumerMounts[i].srcPkg = RegistryGet(registry, d.key).srcPkg
               /\ \E c \in {EmptyStr} \cup UNION {Range(pkgMountPrefixes[n]) : n \in PkgNames} :
                     consumerMounts[i].mountPrefix = Below(c, d)

\* the run on WsSkips is complete: only a's existing entry is registered,
\* nothing was warned about, and the one mount of the host has its stubs
C24_Witness ==
  /\ pc = "done" /\ repo = WsSkips /\ HOST_APP_REL = DefaultHostApp
  /\ RegistryKeys = {"fa-root"}
  /\ warnings = {}
  /\ Len(consumerMounts) = 1
  /\ {f.path : f \in OutputFiles}
       = {StubPath(<< "base1", "/", "a" >>, << "page", ".", "tsx" >>),
          StubPath(<< "base1", "/", "a" >>, << "sub", "/", "layout", ".", "ts" >>)}

\* C25 (registry before resolution): when the mount loop begins the registry
\* holds the keys of all packages, and it does not change while mounts are
\* resolved; so a feature entry is resolved exactly if its key is exposed by
\* some package, wherever that package stands in the processing order, and is
\* warned about exactly if no package exposes it.
C25_RegistryCompleteBeforeMounts ==
  [][/\ (pc = "scan" /\ pc' = "resolve") =>
          {registry'[i].key : i \in 1..Len(registry')} = RegistrableKeys
     /\ (pc = "resolve" /\ pc' \in {"resolve", "declare"}) => registry' = registry
     /\ MountStep => CurFeat.key \in RegistrableKeys
     /\ WarnUnknownKey => CurFeat.key \notin RegistrableKeys]_vars

\* the host, first in the order, mounts a key that features/a exposes, and the
\* stub is there without a warning
C25_Witness ==
  /\ pc = "done" /\ repo = WsBasic
  /\ sortedPkgs = << "web", "fa", "fb" >>
  /\ warnings = {}
  /\ FileAt(StubPath(<< "base1", "/", "a" >>, << "sub", "/", "layout", ".", "ts" >>))

\* the stub tree among files: the files under the output root
StubTree(files) == {f \in files : Under(f.path, GENERATED_ROOT)}

KeysOf(p) ==
  IF repo[p].cfg = "ok" /\ repo[p].hasApp
  THEN {repo[p].exposeRoutes[i].name :
          i \in {j \in 1..Len(repo[p].exposeRoutes) :
                   HasDirectory(p, repo[p].exposeRoutes[j].internalPath)}}
  ELSE {}

\* no name is exposed by two packages
NoSharedKey ==
  \A p, q \in Present(repo) : p # q => KeysOf(p) \cap KeysOf(q) = {}

C27_AbortKeepsPreviousStubs ==
  [][(HasBadManifest /\ pc' # "idle") =>
       \A f \in OutputFiles : IsReExport(f.content) => f \in fs']_vars

LastWriter(path) ==
  CHOOSE i \in 1..Len(consumerMounts) :
    /\ \E r \in Range(consumerMounts[i].routeFiles) :
          StubPath(consumerMounts[i].mountPrefix, r) = path
    /\ \A j \in (i + 1)..Len(consumerMounts) :
          \A r \in Range(consumerMounts[j].routeFiles) :
             StubPath(consumerMounts[j].mountPrefix, r) # path

\* <provider>/app/<route file without extension>
SpecifierOf(srcPkg, r) == << srcPkg, "/", "app", "/" >> \o SubSeq(r, 1, Len(r) - 2)

\* the mounts are written in the order of the list of resolved mounts: after
\* emission exactly one file is at each destination, and it re-exports the
\* source of the last mount of the list that writes there
LastWriterWins ==
  pc \in {"declare", "done"} =>
    \A p \in CurrentStubPaths :
      LET m  == consumerMounts[LastWriter(p)]
          at == {f \in fs : f.path = p}
      IN  /\ Cardinality(at) = 1
          /\ \A f \in at :
               \E r \in Range(m.routeFiles) :
                  /\ StubPath(m.mountPrefix, r) = p
                  /\ IsReExport(f.content)
                  /\ f.content[1].arg = SpecifierOf(m.srcPkg, r)

\* a's and zhost's page.tsx both go to k/p: the file there is zhost's, whose
\* feature entry is the later one
LastWriterWinsReached ==
  /\ pc = "done" /\ repo = WsCollide
  /\ Len(consumerMounts) = 2
  /\ consumerMounts[1].mountPrefix = consumerMounts[2].mountPrefix
  /\ << consumerMounts[1].srcPkg, consumerMounts[2].srcPkg >> = << "a", "zhost" >>
  /\ \E f \in fs : /\ f.path = StubPath(<< "k", "/", "p" >>, << "page", ".", "tsx" >>)
                   /\ f.content[1].arg = << "zhost", "/", "app", "/", "page" >>

\* C29 (destination collision): when two resolved mounts yield the same
\* destination path the run ends without error, exactly one file is at the
\* path, and it re-exports the source of the mount that is later in resolution
\* order, the host's groups being first: where a mount of the selected host and
\* a mount of another package are the two writers of a path, the file is the
\* other package's.
C29_LaterInResolutionOrderWins ==
  pc = "done" =>
    \A h \in HostPkgs : \A q \in Present(repo) \ HostPkgs :
      \A eh \in Entries(h) : \A eq \in Entries(q) :
        (Unmounted(h) /\ Unmounted(q)) =>
          \A rh \in Range(RebasedRouteFiles(RegistryGet(registry, eh.key))) :
            \A rq \in Range(RebasedRouteFiles(RegistryGet(registry, eq.key))) :
              LET p == StubPath(Below(EmptyStr, eh), rh)
              IN  (p = StubPath(Below(EmptyStr, eq), rq) /\ Cardinality(WritersOf(p)) = 2)
                    => /\ Cardinality({f \in fs : f.path = p}) = 1
                       /\ \E f \in fs :
                            /\ f.path = p
                            /\ f.content[1].arg =
                                 SpecifierOf(RegistryGet(registry, eq.key).srcPkg, rq)

====
